---- MODULE Spec2Model ----
(***************************************************************************)
(* Model of src/src/py/sorting.py: insertion_sort, merge_sort, heap_sort,   *)
(* quick_sort and counting_sort over Python lists of integers.              *)
(*                                                                         *)
(* A list element is a record [v, t]: v is the integer the code sees, t is  *)
(* the position (1-based) the element had in the caller's list, carried     *)
(* along so that the relative order of equal values can be observed.  The   *)
(* code compares and computes with v only.                                  *)
(*                                                                         *)
(* Two list objects are tracked: "caller", the list object the caller       *)
(* passed in, and "fresh", the most recent list object the function built   *)
(* itself.  ref says which of them the function's working/returned name is  *)
(* bound to.                                                                *)
(***************************************************************************)
EXTENDS Integers, Sequences, FiniteSets

\* longest list given to a sort called with default arguments
MaxLen == 4

\* longest list given to quick_sort called with explicit start and end
RangeLen == 3

Values == {-1, 0, 1, 2}

Algos == {"insertion", "merge", "heap", "quick", "counting"}

VARIABLES algo, pc, input, caller, fresh, ref, i, temp, shift, oob, stack, args, part

vars == <<algo, pc, input, caller, fresh, ref, i, temp, shift, oob, stack, args, part>>

----------------------------------------------------------------------------
(* Helpers over lists *)

Elem(x, k) == [v |-> x, t |-> k]

Tagged(vs) == [k \in 1..Len(vs) |-> Elem(vs[k], k)]

Vals(s) == [k \in 1..Len(s) |-> s[k].v]

Count(s, x) == Cardinality({k \in 1..Len(s) : s[k] = x})

SameBag(s1, s2) ==
    /\ Len(s1) = Len(s2)
    /\ \A k \in 1..Len(s1) : Count(s1, s1[k]) = Count(s2, s1[k])

NonDecreasing(vs) == \A k \in 1..(Len(vs) - 1) : vs[k] <= vs[k + 1]

\* equal values keep the order they had in the caller's list
KeepsOrderOfEquals(s) ==
    \A a, b \in 1..Len(s) : (a < b /\ s[a].v = s[b].v) => s[a].t < s[b].t

\* 0-based slice array[lo:hi] for 0 <= lo <= hi <= len
Slice(s, lo, hi) == SubSeq(s, lo + 1, hi)

\* the list object a name is bound to
Obj(r) == IF r = "caller" THEN caller ELSE fresh

NoArg == <<>>

\* part records the most recent _partition call: its arguments, the random
\* index drawn, the list before and after, the index returned, and whether
\* it raised IndexError
NoPart == [array |-> <<>>, start |-> 0, end |-> 0, rand |-> 0, p |-> 0,
           result |-> <<>>, err |-> FALSE, called |-> FALSE]

Lists(maxlen) == UNION {[1..n -> Values] : n \in 0..maxlen}

InitCommon(vs) ==
    /\ input = Tagged(vs)
    /\ caller = Tagged(vs)
    /\ pc = "call"
    /\ fresh = <<>>
    /\ ref = "caller"
    /\ i = 0
    /\ temp = <<>>
    /\ shift = 0
    /\ oob = FALSE
    /\ stack = <<>>
    /\ part = NoPart

Init ==
    /\ algo \in Algos
    /\ args = [start |-> NoArg, end |-> NoArg]
    /\ \E vs \in Lists(MaxLen) : InitCommon(vs)

----------------------------------------------------------------------------
(* insertion_sort *)

\* slip: shifts predecessors equal to value as well
ins_shift_ge(prev, value) == prev.v >= value.v

\* loop condition of the inner while, on array[j-1] and value
ins_shift(prev, value) == prev.v > value.v

\* the inner while loop and the final array[j] = value
RECURSIVE ins_while(_, _, _)
ins_while(array, j, value) ==
    IF j > 0 /\ ins_shift(array[j], value)
    THEN ins_while([array EXCEPT ![j + 1] = array[j]], j - 1, value)
    ELSE [array EXCEPT ![j + 1] = value]

InsCall ==
    /\ algo = "insertion" /\ pc = "call"
    /\ pc' = "ins"
    /\ i' = 1
    /\ UNCHANGED <<algo, input, caller, fresh, ref, temp, shift, oob, stack, args, part>>

\* one iteration of "for i in range(1, n)"
InsStep ==
    /\ pc = "ins" /\ i < Len(caller)
    /\ caller' = ins_while(caller, i, caller[i + 1])
    /\ i' = i + 1
    /\ UNCHANGED <<algo, pc, input, fresh, ref, temp, shift, oob, stack, args, part>>

InsReturn ==
    /\ pc = "ins" /\ i >= Len(caller)
    /\ pc' = "done"
    /\ ref' = "caller"
    /\ UNCHANGED <<algo, input, caller, fresh, i, temp, shift, oob, stack, args, part>>

----------------------------------------------------------------------------
(* merge_sort *)

\* the test that appends the left head when neither half is exhausted
merge_take_left(l, r) == l.v < r.v

RECURSIVE merge(_, _, _, _, _, _)
merge(left_list, right_list, left, right, sorted_list, steps) ==
    IF steps = 0 THEN sorted_list
    ELSE IF left = Len(left_list)
         THEN merge(left_list, right_list, left, right + 1,
                    Append(sorted_list, right_list[right + 1]), steps - 1)
    ELSE IF right = Len(right_list)
         THEN merge(left_list, right_list, left + 1, right,
                    Append(sorted_list, left_list[left + 1]), steps - 1)
    ELSE IF merge_take_left(left_list[left + 1], right_list[right + 1])
         THEN merge(left_list, right_list, left + 1, right,
                    Append(sorted_list, left_list[left + 1]), steps - 1)
    ELSE merge(left_list, right_list, left, right + 1,
               Append(sorted_list, right_list[right + 1]), steps - 1)

RECURSIVE merge_sort(_)
merge_sort(array) ==
    LET n == Len(array)
        split_point == n \div 2
    IN IF n <= 1 THEN array
       ELSE merge(merge_sort(Slice(array, 0, split_point)),
                  merge_sort(Slice(array, split_point, n)), 0, 0, <<>>, n)

\* n <= 1 returns the argument itself, otherwise the new sorted_list
MergeCall ==
    /\ algo = "merge" /\ pc = "call"
    /\ pc' = "done"
    /\ IF Len(caller) <= 1
       THEN ref' = "caller" /\ fresh' = fresh
       ELSE ref' = "fresh" /\ fresh' = merge_sort(caller)
    /\ UNCHANGED <<algo, input, caller, i, temp, shift, oob, stack, args, part>>

----------------------------------------------------------------------------
(* heap_sort *)

heap_left(k) == 2 * k

\* slip: the right child of the 0-based convention
heap_right_zero_based(k) == 2 * k + 2

heap_right(k) == 2 * k + 1

\* slip: comparison reversed
heap_lt(a, b) == a.v < b.v

\* "heap[child] > heap[parent-or-largest]"
heap_gt(a, b) == a.v > b.v

\* first index _build_max_heap heapifies
build_start(n) == n \div 2 + 1

Swap(s, x, y) == [s EXCEPT ![x + 1] = s[y + 1], ![y + 1] = s[x + 1]]

\* _max_heapify(heap, k).  Returns the heap and whether any subscript it
\* evaluated lay outside 0..len(heap)-1 (it then stops where it is).
RECURSIVE _max_heapify(_, _)
_max_heapify(heap, k) ==
    LET n == Len(heap)
        left == heap_left(k)
        right == heap_right(k)
        inside(S) == S \subseteq 0..(n - 1)
        rd1 == IF left < n THEN {left, k} ELSE {}
        l1 == IF left < n /\ inside(rd1) /\ heap_gt(heap[left + 1], heap[k + 1])
              THEN left ELSE k
        rd2 == IF right < n THEN {right, l1} ELSE {}
        largest == IF right < n /\ inside(rd2) /\ heap_gt(heap[right + 1], heap[l1 + 1])
                   THEN right ELSE l1
    IN IF ~(inside(rd1) /\ inside(rd2)) THEN [heap |-> heap, oob |-> TRUE]
       ELSE IF largest # k THEN _max_heapify(Swap(heap, k, largest), largest)
       ELSE [heap |-> heap, oob |-> FALSE]

\* n = len(array); _build_max_heap(array) starts its loop
HeapCall ==
    /\ algo = "heap" /\ pc = "call"
    /\ pc' = "build"
    /\ i' = build_start(Len(caller))
    /\ UNCHANGED <<algo, input, caller, fresh, ref, temp, shift, oob, stack, args, part>>

\* one iteration of "for i in range(n//2 + 1, -1, -1)" in _build_max_heap
BuildStep ==
    /\ pc = "build" /\ i >= 0
    /\ LET r == _max_heapify(caller, i)
       IN /\ caller' = r.heap
          /\ oob' = (oob \/ r.oob)
    /\ i' = i - 1
    /\ UNCHANGED <<algo, pc, input, fresh, ref, temp, shift, stack, args, part>>

\* _build_max_heap returns; the extraction loop starts at n-1
BuildReturn ==
    /\ pc = "build" /\ i < 0
    /\ pc' = "extract"
    /\ i' = Len(caller) - 1
    /\ UNCHANGED <<algo, input, caller, fresh, ref, temp, shift, oob, stack, args, part>>

\* one iteration of "for i in range(n-1, -1, -1)": the swap writes into the
\* list array is bound to, then array is rebound to the new list
\* _max_heapify(array[:i], 0) + old_array[i:]
ExtractStep ==
    /\ pc = "extract" /\ i >= 0
    /\ LET swapped == Swap(Obj(ref), 0, i)
           old_array == swapped
           r == _max_heapify(Slice(swapped, 0, i), 0)
       IN /\ caller' = IF ref = "caller" THEN swapped ELSE caller
          /\ fresh' = r.heap \o Slice(old_array, i, Len(old_array))
          /\ oob' = (oob \/ r.oob)
    /\ ref' = "fresh"
    /\ i' = i - 1
    /\ UNCHANGED <<algo, pc, input, temp, shift, stack, args, part>>

HeapReturn ==
    /\ pc = "extract" /\ i < 0
    /\ pc' = "done"
    /\ UNCHANGED <<algo, input, caller, fresh, ref, i, temp, shift, oob, stack, args, part>>

----------------------------------------------------------------------------
(* counting_sort *)

Min(S) == CHOOSE x \in S : \A y \in S : x <= y

Max(S) == CHOOSE x \in S : \A y \in S : x >= y

Abs(x) == IF x < 0 THEN -x ELSE x

ValSet(s) == {s[k].v : k \in 1..Len(s)}

\* shift = abs(min(min(input_array), 0))
cs_shift(input_array) == Abs(Min({Min(ValSet(input_array)), 0}))

\* slip: output_array bound to the input list
cs_output_alias == "caller"

\* the list output_array is bound to: a new list of N zeros
cs_output == "fresh"

\* for i in range(0, N): temp_array[input_array[i] + shift] += 1
RECURSIVE cs_count(_, _, _, _)
cs_count(temp_array, input_array, sh, k) ==
    IF k >= Len(input_array) THEN temp_array
    ELSE cs_count([temp_array EXCEPT ![input_array[k + 1].v + sh + 1] = @ + 1],
                  input_array, sh, k + 1)

\* for j in range(1, K + 1): temp_array[j] += temp_array[j-1]
RECURSIVE cs_accumulate(_, _, _)
cs_accumulate(temp_array, j, K) ==
    IF j >= K + 1 THEN temp_array
    ELSE cs_accumulate([temp_array EXCEPT ![j + 1] = @ + temp_array[j]], j + 1, K)

\* everything up to the start of the placement loop
CsCall ==
    /\ algo = "counting" /\ pc = "call"
    /\ IF Len(caller) = 0
       THEN /\ pc' = "done"
            /\ fresh' = <<>>
            /\ ref' = "fresh"
            /\ UNCHANGED <<i, temp, shift>>
       ELSE LET sh == cs_shift(caller)
                K == Max(ValSet(caller)) + sh
                N == Len(caller)
                zeros == [j \in 1..(K + 1) |-> 0]
            IN /\ shift' = sh
               /\ temp' = cs_accumulate(cs_count(zeros, caller, sh, 0), 1, K)
               /\ fresh' = [j \in 1..N |-> Elem(0, 0)]
               /\ ref' = cs_output
               /\ i' = N - 1
               /\ pc' = "place"
    /\ UNCHANGED <<algo, input, caller, oob, stack, args, part>>

\* one iteration of "for k in range(N - 1, -1, -1)"
CsPlace ==
    /\ pc = "place" /\ i >= 0
    /\ LET element == caller[i + 1]
           slot == temp[element.v + shift + 1] - 1
           written == [Obj(ref) EXCEPT ![slot + 1] = element]
       IN /\ caller' = IF ref = "caller" THEN written ELSE caller
          /\ fresh' = IF ref = "caller" THEN fresh ELSE written
          /\ temp' = [temp EXCEPT ![element.v + shift + 1] = @ - 1]
    /\ i' = i - 1
    /\ UNCHANGED <<algo, pc, input, ref, shift, oob, stack, args, part>>

CsReturn ==
    /\ pc = "place" /\ i < 0
    /\ pc' = "done"
    /\ UNCHANGED <<algo, input, caller, fresh, ref, i, temp, shift, oob, stack, args, part>>

----------------------------------------------------------------------------
(* quick_sort *)

\* Python list subscripts: -n..n-1 are valid, negative ones count from the end
PyOk(s, k) == -Len(s) <= k /\ k < Len(s)

PyPos(s, k) == IF k >= 0 THEN k + 1 ELSE Len(s) + k + 1

PyGet(s, k) == s[PyPos(s, k)]

\* array[a], array[b] = array[b], array[a]
PySwap(s, a, b) == [s EXCEPT ![PyPos(s, a)] = PyGet(s, b), ![PyPos(s, b)] = PyGet(s, a)]

\* slip: strict comparison with the pivot
part_lt(a, x) == a.v < x.v

\* "if array[j] <= x"
part_le(a, x) == a.v <= x.v

\* slip: the left call starts at 0 instead of start
left_range_from_zero(start, pivot, end) == [start |-> 0, end |-> pivot - 1]

\* slip: the left call keeps the pivot in its range
left_range_keeps_pivot(start, pivot, end) == [start |-> start, end |-> pivot]

\* the ranges of the two recursive calls
left_range(start, pivot, end) == [start |-> start, end |-> pivot - 1]

right_range(start, pivot, end) == [start |-> pivot + 1, end |-> end]

PartErr(array) == [array |-> array, p |-> 0, err |-> TRUE]

\* "for j in range(start, end)" and the two statements after it
RECURSIVE part_loop(_, _, _, _, _)
part_loop(array, ii, j, end, x) ==
    IF j >= end
    THEN IF PyOk(array, end) /\ PyOk(array, ii + 1)
         THEN [array |-> PySwap(array, ii + 1, end), p |-> ii + 1, err |-> FALSE]
         ELSE PartErr(array)
    ELSE IF ~PyOk(array, j) THEN PartErr(array)
    ELSE IF part_le(PyGet(array, j), x)
         THEN IF PyOk(array, ii + 1)
              THEN part_loop(PySwap(array, ii + 1, j), ii + 1, j + 1, end, x)
              ELSE PartErr(array)
    ELSE part_loop(array, ii, j + 1, end, x)

\* _partition(array, start, end) when randint(start, end) returns rand
_partition(array, start, end, rand) ==
    IF ~(PyOk(array, end) /\ PyOk(array, rand)) THEN PartErr(array)
    ELSE LET swapped == PySwap(array, rand, end)
         IN part_loop(swapped, start - 1, start, end, PyGet(swapped, end))

Frame(r) == [start |-> r.start, end |-> r.end, pc |-> "enter", pivot |-> 0]

Top == stack[Len(stack)]

SetTop(f) == [stack EXCEPT ![Len(stack)] = f]

\* a quick_sort call returns array; the outermost return ends the run
Return ==
    /\ stack' = SubSeq(stack, 1, Len(stack) - 1)
    /\ pc' = IF Len(stack) = 1 THEN "done" ELSE pc
    /\ ref' = "caller"

\* the caller's call: None arguments become 0 and len(array) - 1
QsCall ==
    /\ algo = "quick" /\ pc = "call"
    /\ LET start == IF args.start = NoArg THEN 0 ELSE args.start[1]
           end == IF args.end = NoArg THEN Len(caller) - 1 ELSE args.end[1]
       IN stack' = <<Frame([start |-> start, end |-> end])>>
    /\ pc' = "qs"
    /\ UNCHANGED <<algo, input, caller, fresh, ref, i, temp, shift, oob, args, part>>

\* "if start < end" is false: return array
QsBase ==
    /\ pc = "qs" /\ Top.pc = "enter" /\ ~(Top.start < Top.end)
    /\ Return
    /\ UNCHANGED <<algo, input, caller, fresh, i, temp, shift, oob, args, part>>

\* pivot = _partition(array, start, end); an IndexError ends the run
QsPartition ==
    /\ pc = "qs" /\ Top.pc = "enter" /\ Top.start < Top.end
    /\ \E rand \in Top.start..Top.end :
          LET r == _partition(caller, Top.start, Top.end, rand)
          IN /\ caller' = r.array
             /\ part' = [array |-> caller, start |-> Top.start, end |-> Top.end,
                         rand |-> rand, p |-> r.p, result |-> r.array,
                         err |-> r.err, called |-> TRUE]
             /\ IF r.err
                THEN pc' = "error" /\ stack' = stack
                ELSE pc' = pc /\ stack' = SetTop([Top EXCEPT !.pc = "left", !.pivot = r.p])
    /\ UNCHANGED <<algo, input, fresh, ref, i, temp, shift, oob, args>>

\* quick_sort(array, start, pivot - 1)
QsRecurseLeft ==
    /\ pc = "qs" /\ Top.pc = "left"
    /\ stack' = Append(SetTop([Top EXCEPT !.pc = "right"]),
                       Frame(left_range(Top.start, Top.pivot, Top.end)))
    /\ UNCHANGED <<algo, pc, input, caller, fresh, ref, i, temp, shift, oob, args, part>>

\* quick_sort(array, pivot + 1, end)
QsRecurseRight ==
    /\ pc = "qs" /\ Top.pc = "right"
    /\ stack' = Append(SetTop([Top EXCEPT !.pc = "return"]),
                       Frame(right_range(Top.start, Top.pivot, Top.end)))
    /\ UNCHANGED <<algo, pc, input, caller, fresh, ref, i, temp, shift, oob, args, part>>

\* return array, after both recursive calls
QsReturn ==
    /\ pc = "qs" /\ Top.pc = "return"
    /\ Return
    /\ UNCHANGED <<algo, input, caller, fresh, i, temp, shift, oob, args, part>>

QsNext ==
    \/ QsCall \/ QsBase \/ QsPartition \/ QsRecurseLeft \/ QsRecurseRight \/ QsReturn

Next ==
    \/ InsCall \/ InsStep \/ InsReturn
    \/ MergeCall
    \/ HeapCall \/ BuildStep \/ BuildReturn \/ ExtractStep \/ HeapReturn
    \/ CsCall \/ CsPlace \/ CsReturn
    \/ QsNext

Spec == Init /\ [][Next]_vars

\* quick_sort called with explicit start and end, in range or not
ArgRange(n) == (-(n + 1))..n

RangeInit ==
    /\ algo = "quick"
    /\ \E vs \in Lists(RangeLen) :
          /\ InitCommon(vs)
          /\ \E s, e \in ArgRange(Len(vs)) : args = [start |-> <<s>>, end |-> <<e>>]

RangeSpec == RangeInit /\ [][QsNext]_vars

\* quick_sort with default arguments; a started call keeps running
QuickInit == Init /\ algo = "quick"

QuickSpec == QuickInit /\ [][QsNext]_vars /\ WF_vars(QsNext)

----------------------------------------------------------------------------
(* Properties *)

Min2(a, b) == IF a < b THEN a ELSE b

Max2(a, b) == IF a > b THEN a ELSE b

\* the non-decreasing arrangement of a sequence of integers, by repeatedly
\* taking out one smallest member
RECURSIVE RefSort(_)
RefSort(vs) ==
    IF vs = <<>> THEN <<>>
    ELSE LET m == Min({vs[k] : k \in 1..Len(vs)})
             at == Min({k \in 1..Len(vs) : vs[k] = m})
         IN <<m>> \o RefSort(SubSeq(vs, 1, at - 1) \o SubSeq(vs, at + 1, Len(vs)))

Result == Obj(ref)

N == Len(input)

\* C1: whichever of the five sorts is called with default arguments, and
\* whatever pivots quick_sort draws, the returned list has the input's
\* length and multiset of values, is non-decreasing, and so equals the
\* input sorted by the reference sort.
C1_SortsLikeReference ==
    pc = "done" =>
        /\ Len(Result) = N
        /\ SameBag(Vals(Result), Vals(input))
        /\ NonDecreasing(Vals(Result))
        /\ Vals(Result) = RefSort(Vals(input))

C1_Witness ==
    /\ pc = "done" /\ algo = "heap"
    /\ Vals(input) = <<2, -1, 1, -1>>
    /\ Vals(Result) = <<-1, -1, 1, 2>>

\* C2: after heap_sort returns, the caller's own list holds its original
\* values in non-decreasing order and the returned list is that same list.
C2_HeapSortInPlace ==
    (algo = "heap" /\ pc = "done") =>
        /\ ref = "caller"
        /\ SameBag(caller, input)
        /\ NonDecreasing(Vals(caller))

\* C3: merge_sort is stable: elements of equal value appear in the returned
\* list in the order they had in the input (the left half's element is
\* taken first when the two heads are equal).
C3_MergeSortStable ==
    (algo = "merge" /\ pc = "done") => KeepsOrderOfEquals(Result)

ArgStart == args.start[1]

ArgEnd == args.end[1]

ValidRange == 0 <= ArgStart /\ ArgStart <= ArgEnd /\ ArgEnd <= N - 1

\* C4: quick_sort(array, start, end) with 0 <= start <= end <= len(array)-1
\* leaves positions start..end holding the multiset they held before, in
\* non-decreasing order, and every other position holding its old value,
\* whatever pivots are drawn.
C4_SortsOnlySubRange ==
    (pc = "done" /\ ValidRange) =>
        /\ ref = "caller"
        /\ Len(caller) = N
        /\ SameBag(Slice(caller, ArgStart, ArgEnd + 1), Slice(input, ArgStart, ArgEnd + 1))
        /\ NonDecreasing(Vals(Slice(caller, ArgStart, ArgEnd + 1)))
        /\ \A k \in 0..(N - 1) : (k < ArgStart \/ k > ArgEnd) => caller[k + 1] = input[k + 1]

C4_Witness ==
    /\ pc = "done"
    /\ ArgStart = 1 /\ ArgEnd = 2
    /\ Vals(input) = <<2, 1, 0>>
    /\ Vals(caller) = <<2, 0, 1>>

OutOfRange ==
    /\ ArgStart < ArgEnd
    /\ \/ ArgStart < 0 \/ ArgStart > N - 1
       \/ ArgEnd < 0 \/ ArgEnd > N - 1

\* C5: quick_sort called with start or end outside [0, n-1] (and
\* start < end) ends in an error and never reorders the list.
C5_OutOfRangeFailsFast ==
    OutOfRange => (pc # "done" /\ Vals(caller) = Vals(input))

\* C6: insertion_sort and counting_sort are stable: the returned list is a
\* rearrangement of the input in which elements of equal value keep the
\* order they had in the input.
C6_InsertionCountingStable ==
    (algo \in {"insertion", "counting"} /\ pc = "done") =>
        /\ SameBag(Result, input)
        /\ KeepsOrderOfEquals(Result)

C6_Witness ==
    /\ algo = "counting" /\ pc = "done"
    /\ Vals(input) = <<1, -1, 1, -1>>
    /\ Result = <<Elem(-1, 2), Elem(-1, 4), Elem(1, 1), Elem(1, 3)>>

\* C7: merge_sort and counting_sort never write to the caller's list: it
\* holds the same values at the same positions throughout and after the call.
C7_InputNotMutated ==
    algo \in {"merge", "counting"} => caller = input

C7_Witness ==
    /\ algo = "counting" /\ pc = "done"
    /\ Vals(input) = <<2, 0, -1, 0>>
    /\ Vals(Result) = <<-1, 0, 0, 2>>
    /\ caller = input

\* array[floor(k/2)] >= array[k] for every index 1 <= k < len, 0-based
MaxHeap(s) == \A k \in 1..(Len(s) - 1) : s[(k \div 2) + 1].v >= s[k + 1].v

\* C8: after _build_max_heap the whole list is a max-heap under the code's
\* indexing; after the extraction step with index j the prefix [0, j) is a
\* max-heap and positions [j, n) hold the n-j largest values in their
\* final order; no _max_heapify call evaluates a subscript outside its heap.
C8_HeapLoopInvariant ==
    algo = "heap" =>
        /\ ~oob
        /\ (pc = "extract" /\ i = N - 1) => (ref = "caller" /\ MaxHeap(caller))
        /\ (pc \in {"extract", "done"} /\ i < N - 1) =>
              LET j == i + 1
              IN /\ Len(Result) = N
                 /\ MaxHeap(Slice(Result, 0, j))
                 /\ Vals(Slice(Result, j, N)) = Slice(RefSort(Vals(input)), j, N)

C8_Witness ==
    /\ algo = "heap" /\ pc = "extract" /\ i = 1
    /\ Vals(input) = <<-1, 0, 2, 1>>
    /\ Vals(Result) = <<0, -1, 1, 2>>

FrameLen(f) == f.end - f.start + 1

\* C10: quick_sort with default arguments terminates whatever pivots are
\* drawn: every recursive call is on a range strictly shorter than its
\* parent's, the number of frames never exceeds the length of the list (one
\* frame for the empty list), and the call eventually returns.
C10_QuickSortTotal ==
    /\ [](\A d \in 2..Len(stack) : FrameLen(stack[d]) < FrameLen(stack[d - 1]))
    /\ [](Len(stack) <= Max2(1, N))
    /\ <>(pc = "done")

C10_Witness ==
    /\ Vals(input) = <<0, 0, 0, 0>>
    /\ Len(stack) = 4
    /\ Top.pc = "enter" /\ Top.start = 0 /\ Top.end = 0
====
